---- MODULE Spec2Model ----
(***************************************************************************)
(* Model of the hospital growth-analysis demo (tayayayait/hospital).      *)
(*                                                                         *)
(*   AgeSpec     src/utils/age.ts: safeDate, calculateAge, formatDateKR,  *)
(*               formatAgeKR, applied to bounded date inputs under a      *)
(*               ticking wall clock and a host time zone.                 *)
(*   GrowthSpec  the derived values of the AnalysisResults component      *)
(*               (predicted height, range, growth curve, marker).         *)
(*   BoneAgeSpec the mounted AnalysisResults with its bone-age selectors. *)
(*   Spec        the App session: patient form, file selection,           *)
(*               startAnalysis / its continuation, resetApp.              *)
(*   UploadSpec  the session driven through FileUpload: validateFile,     *)
(*               handleDrop, handleFileInput.                             *)
(*   GatewaySpec the /api/analyze gateway (Netlify function and Vite      *)
(*               middleware) with the session that awaits its answer.     *)
(*                                                                         *)
(* Numbers that are fractions in the program are kept exact as scaled     *)
(* integers: heights in 1/HeightDen cm, probabilities in 1/ProbDen.       *)
(***************************************************************************)
EXTENDS Integers, Sequences, FiniteSets, TLC

VARIABLES
    \* ---- App session (src/App.tsx) ----
    appState,        \* AppState: "IDLE" | "ANALYZING" | "RESULTS"
    currentFile,     \* UploadedFile | null
    result,          \* AnalysisResult | null
    analysisError,   \* string | null
    patientInfo,     \* PatientInfo (the fields isPatientFormComplete reads)
    inflight,        \* the analyzeImage calls that have not settled yet
    issued,          \* number of startAnalysis calls made so far
    liveUrls,        \* object URLs created and not yet revoked
    lastEvent,       \* the handler that ran last, with the file it was given
    \* ---- FileUpload (src/unnamed/part_000) ----
    uploadError,     \* the component's `error` state: string | null
    \* ---- the /api/analyze gateway (analyze.js, vite.config.ts) ----
    gateway,         \* which implementation serves: "netlify" or "vite"
    gwRequest,       \* the HTTP request and the deployment's API key
    upstream,        \* what the OpenAI call does when it is made
    gwResponse,      \* the gateway's HTTP response, null before it answers
    \* ---- age.ts under test ----
    birthDate,       \* first argument of calculateAge
    referenceDate,   \* second argument of calculateAge
    tz,              \* host time zone: "east" (UTC offset >= 0) or "west" (< 0)
    now,             \* local calendar date of the wall clock
    ticks,           \* how often the clock has advanced
    age,             \* outcome of the latest calculateAge call
    calledAt,        \* clock reading when the latest call started
    firstAge,        \* outcome of the first calculateAge call
    firstAt,         \* clock reading when the first call started
    calls,           \* number of calculateAge calls made
    shown,           \* latest formatDateKR / formatAgeKR output
    \* ---- AnalysisResults derived values (src/unnamed/part_000) ----
    heightCm,        \* patientInfo.heightCm, in 1/HeightDen cm
    probability,     \* result.probability, in 1/ProbDen
    chronologicalAge,\* {years, months}
    view,            \* what the component computed on its last render
    boneAge          \* the component's boneAge state: {years, months}

sessionVars == <<appState, currentFile, result, analysisError, patientInfo,
                 inflight, issued, liveUrls, lastEvent>>
uploadVars  == <<uploadError>>
gatewayVars == <<gateway, gwRequest, upstream, gwResponse>>
ageVars     == <<birthDate, referenceDate, tz, now, ticks, age, calledAt, firstAge,
                 firstAt, calls, shown>>
growthVars  == <<heightCm, probability, chronologicalAge, view, boneAge>>
vars        == <<sessionVars, uploadVars, gatewayVars, ageVars, growthVars>>

Null == [kind |-> "null"]

Max(a, b) == IF a >= b THEN a ELSE b

Min(a, b) == IF a <= b THEN a ELSE b

(***************************************************************************)
(* Calendar                                                                *)
(***************************************************************************)
IsLeap(y) == (y % 4 = 0 /\ y % 100 # 0) \/ y % 400 = 0

\* m0 is a JavaScript month index, 0..11
DaysInMonth(y, m0) ==
    IF m0 = 1 THEN (IF IsLeap(y) THEN 29 ELSE 28)
    ELSE IF m0 \in {3, 5, 8, 10} THEN 30 ELSE 31

PrevDay(d) ==
    IF d.d > 1 THEN [d EXCEPT !.d = d.d - 1]
    ELSE IF d.m > 0 THEN [d EXCEPT !.m = d.m - 1, !.d = DaysInMonth(d.y, d.m - 1)]
    ELSE [d EXCEPT !.y = d.y - 1, !.m = 11, !.d = 31]

NextDay(d) ==
    IF d.d < DaysInMonth(d.y, d.m) THEN [d EXCEPT !.d = d.d + 1]
    ELSE IF d.m < 11 THEN [d EXCEPT !.m = d.m + 1, !.d = 1]
    ELSE [d EXCEPT !.y = d.y + 1, !.m = 0, !.d = 1]

(***************************************************************************)
(* src/utils/age.ts                                                        *)
(*                                                                         *)
(* A date string argument is one of                                        *)
(*   [kind |-> "absent"]             undefined                             *)
(*   [kind |-> "empty"]              ''                                    *)
(*   [kind |-> "invalid"]            a string Date cannot parse            *)
(*   [kind |-> "iso", y, mm, dd]     'YYYY-MM-DD', mm in 1..12             *)
(* A Date is Null or [kind |-> "date", y, m, d]: the components its local  *)
(* getters getFullYear / getMonth (0..11) / getDate return.                *)
(***************************************************************************)
YearSpan == 1
MaxTicks == 2
MaxCalls == 2

Years        == 2023 .. (2023 + YearSpan)
MonthSamples == {1, 2, 3, 6, 12}
DaySamples   == {1, 15, 29, 31}

IsoDate(y, mm, dd) == [kind |-> "iso", y |-> y, mm |-> mm, dd |-> dd]

\* the dates of the form's <input type="date">: real calendar dates only
GridDates ==
    { IsoDate(t[1], t[2], t[3]) :
        t \in { u \in Years \X MonthSamples \X DaySamples :
                  u[3] <= DaysInMonth(u[1], u[2] - 1) } }

ExampleDates == { IsoDate(2010, 6, 15), IsoDate(2024, 6, 10), IsoDate(2024, 6, 20) }

ValidDates == GridDates \cup ExampleDates

DateInputs ==
    ValidDates \cup { [kind |-> "absent"], [kind |-> "empty"], [kind |-> "invalid"] }

Zones == {"east", "west"}

ClockSamples ==
    { [kind |-> "date", y |-> 2024, m |-> 5, d |-> 14],
      [kind |-> "date", y |-> 2023, m |-> 11, d |-> 31] }

IsValidInput(value) == value.kind = "iso"

\* `new Date(value)` for a date-only ISO string is midnight UTC of that day;
\* the local getters then read the same calendar day at UTC offsets >= 0 and
\* the previous calendar day at negative offsets.
NewDateOf(value, zone) ==
    IF value.kind # "iso" THEN Null     \* Invalid Date: getTime() is NaN
    ELSE LET utc == [kind |-> "date", y |-> value.y, m |-> value.mm - 1, d |-> value.dd]
         IN  IF zone = "west" THEN PrevDay(utc) ELSE utc

safeDate(value, zone) ==
    IF value.kind \in {"absent", "empty"} THEN Null
    ELSE NewDateOf(value, zone)

Thrown == [kind |-> "TypeError"]

AgeResult(years, months) == [kind |-> "age", years |-> years, months |-> months]

\* AgeBetween with the `months += 12` of the borrow left out
AgeBetween_NoMonthCarry(birth, reference) ==
    IF birth = Null \/ reference = Null THEN Thrown
    ELSE LET months0 == reference.m - birth.m
             years0  == reference.y - birth.y
             months1 == IF reference.d < birth.d THEN months0 - 1 ELSE months0
             years1  == IF months1 < 0 THEN years0 - 1 ELSE years0
         IN  IF years1 < 0 THEN AgeResult(0, 0) ELSE AgeResult(years1, months1)

\* AgeBetween with the clamp resetting the years only
AgeBetween_ClampYearsOnly(birth, reference) ==
    IF birth = Null \/ reference = Null THEN Thrown
    ELSE LET months0 == reference.m - birth.m
             years0  == reference.y - birth.y
             months1 == IF reference.d < birth.d THEN months0 - 1 ELSE months0
             years1  == IF months1 < 0 THEN years0 - 1 ELSE years0
             months2 == IF months1 < 0 THEN months1 + 12 ELSE months1
         IN  IF years1 < 0 THEN AgeResult(0, months2) ELSE AgeResult(years1, months2)

\* the arithmetic of calculateAge on two Date objects (null included:
\* reading a property of null throws)
AgeBetween(birth, reference) ==
    IF birth = Null \/ reference = Null THEN Thrown
    ELSE LET months0 == reference.m - birth.m
             years0  == reference.y - birth.y
             months1 == IF reference.d < birth.d THEN months0 - 1 ELSE months0
             years1  == IF months1 < 0 THEN years0 - 1 ELSE years0
             months2 == IF months1 < 0 THEN months1 + 12 ELSE months1
         IN  IF years1 < 0 THEN AgeResult(0, 0) ELSE AgeResult(years1, months2)

\* `|| new Date(0)`: the fallback is the epoch instead of the current instant
OrNow_Epoch(date, clock) ==
    IF date = Null THEN [kind |-> "date", y |-> 1970, m |-> 0, d |-> 1] ELSE date

\* the `|| new Date()` fallback left out
OrNow_NoFallback(date, clock) == date

\* x || new Date()
OrNow(date, clock) == IF date = Null THEN clock ELSE date

\* calculateAge measuring up to the current instant whatever referenceDate is
calculateAge_IgnoresReference(birth, reference, zone, clockB, clockR) ==
    AgeBetween(OrNow(safeDate(birth, zone), clockB), clockR)

\* clockB and clockR are the readings of the two `new Date()` expressions,
\* evaluated in that order
calculateAge(birth, reference, zone, clockB, clockR) ==
    AgeBetween(OrNow(safeDate(birth, zone), clockB),
               OrNow(safeDate(reference, zone), clockR))

Placeholder == [kind |-> "text", text |-> "--"]

\* toLocaleDateString('ko-KR', 2-digit month and day): "YYYY. MM. DD."
formatDateKR(value, zone) ==
    LET date == safeDate(value, zone)
    IN  IF date = Null THEN Placeholder
        ELSE [kind |-> "localeDate", year |-> date.y, month |-> date.m + 1, day |-> date.d]

\* `${age.years}<se> ${age.months}<gaewol>`: years first, then months
formatAgeKR(a) ==
    IF a.kind # "age" THEN Thrown
    ELSE [kind |-> "ageText", years |-> a.years, months |-> a.months]


(***************************************************************************)
(* AnalysisResults (src/unnamed/part_000, lines 158-508): derived values   *)
(*                                                                         *)
(* heightCm is held in 1/HeightDen cm and probability in 1/ProbDen, so the *)
(* program's fractions are exact integers here:                            *)
(*   base + 10 + delta   is  PredictedNumerator / PredictedDen             *)
(*   a curve height      is  height / (HeightDen * GraphDen)               *)
(***************************************************************************)
HeightDen     == 2
ProbDen       == 8
MaxChronYears == 9
totalPoints   == 8

\* 0 is the cleared ("unset") field; the others are whole centimetres and
\* centimetres plus 1/HeightDen, inside and outside the form's 80..220
Heights ==
    {0} \cup { c * HeightDen : c \in {80, 120, 142, 220} }
        \cup { c * HeightDen + 1 : c \in {-21, 119, 142} }

Probabilities == 0 .. ProbDen

\* result.probability is typed `number`: AnalysisResults does not validate it,
\* so it is rendered on values from -2 to 2 as well
ResultProbabilities == (-2 * ProbDen) .. (2 * ProbDen)

ChronAges == { AgeResult(y, m) : y \in 0 .. MaxChronYears, m \in 0 .. 11 }

\* patientInfo.heightCm || 140, in 1/HeightDen cm
BaseHeight(h) == IF h = 0 THEN 140 * HeightDen ELSE h

PredictedDen == 2 * ProbDen * HeightDen

\* (base + 10 + (probability - 0.5) * 12) * PredictedDen
PredictedNumerator(h, p) ==
    2 * ProbDen * BaseHeight(h) + 10 * PredictedDen + (2 * p - ProbDen) * 12 * HeightDen

\* Math.round(x) is floor(x + 1/2)
MathRound(num, den) == (2 * num + den) \div (2 * den)

\* predictedHeight with Math.floor in place of Math.round
predictedHeight_Floor(h, p) == PredictedNumerator(h, p) \div PredictedDen

\* predictedHeight with delta = (0.5 - probability) * 12
predictedHeight_NegativeSlope(h, p) ==
    MathRound(PredictedNumerator(h, ProbDen - p), PredictedDen)

predictedHeight(h, p) == MathRound(PredictedNumerator(h, p), PredictedDen)

\* predictedRange without the floor of 120
predictedRange_NoFloor(predicted) == [min |-> predicted - 4, max |-> predicted + 3]

predictedRange(predicted) == [min |-> Max(120, predicted - 4), max |-> predicted + 3]

\* base = 60 + probability * 25, held as base * ProbDen; each value is
\* Math.round(Math.min(100, base + offset)); min and max are the attributes of
\* the range input the value is shown on
sliderParameters(p) ==
    LET base == 60 * ProbDen + 25 * p
        value(offset) == MathRound(Min(100 * ProbDen, base + offset * ProbDen), ProbDen)
    IN  << [id |-> "nutrition", value |-> value(5),  min |-> 40, max |-> 100],
           [id |-> "hormone",   value |-> value(-6), min |-> 30, max |-> 100],
           [id |-> "activity",  value |-> value(2),  min |-> 20, max |-> 100] >>

\* osteoAgeScore without the Math.max(55, ...) floor
osteoAgeScore_NoFloor(p) ==
    MathRound(Min(100 * ProbDen, 45 * ProbDen + 50 * p), ProbDen)

\* Math.round(Math.min(100, Math.max(55, 45 + probability * 50)))
osteoAgeScore(p) ==
    MathRound(Min(100 * ProbDen, Max(55 * ProbDen, 45 * ProbDen + 50 * p)), ProbDen)

GraphDen == Max(1, totalPoints - 1)

\* graphPoints built from a 1-based index
graphPoints_OneBased(h, chron, predicted) ==
    LET baseHeight == BaseHeight(h)
        startAge   == Max(4, chron.years - 2)
        heightDiff == predicted * HeightDen - baseHeight
    IN  [i \in 1 .. totalPoints |->
            [age |-> startAge + i, height |-> GraphDen * baseHeight + heightDiff * i]]

\* graphPoints with the curve starting at the chronological age itself
graphPoints_StartsAtYears(h, chron, predicted) ==
    LET baseHeight == BaseHeight(h)
        startAge   == Max(4, chron.years)
        heightDiff == predicted * HeightDen - baseHeight
    IN  [i \in 1 .. totalPoints |->
            [age    |-> startAge + (i - 1),
             height |-> GraphDen * baseHeight + heightDiff * (i - 1)]]

\* graphPoints drawn from the predicted height down to the base height
graphPoints_FromPredicted(h, chron, predicted) ==
    LET baseHeight == BaseHeight(h)
        startAge   == Max(4, chron.years - 2)
        heightDiff == predicted * HeightDen - baseHeight
    IN  [i \in 1 .. totalPoints |->
            [age    |-> startAge + (i - 1),
             height |-> GraphDen * predicted * HeightDen - heightDiff * (i - 1)]]

\* point idx (0-based) is element idx + 1; its height is in 1/(HeightDen * GraphDen) cm
graphPoints(h, chron, predicted) ==
    LET baseHeight == BaseHeight(h)
        startAge   == Max(4, chron.years - 2)
        heightDiff == predicted * HeightDen - baseHeight
    IN  [i \in 1 .. totalPoints |->
            [age    |-> startAge + (i - 1),
             height |-> GraphDen * baseHeight + heightDiff * (i - 1)]]

\* |point.age - currentDecimalAge| in twelfths of a year, currentDecimalAge
\* being years + months / 12
AgeDistance(point, chron) ==
    LET d == 12 * point.age - (12 * chron.years + chron.months)
    IN  IF d >= 0 THEN d ELSE -d

RECURSIVE reduceClosest_KeepsLast(_, _, _)
\* the reduce with <= for <: of two equally close points the later one is kept
reduceClosest_KeepsLast(points, closest, chron) ==
    IF points = <<>> THEN closest
    ELSE LET next == Head(points)
         IN  reduceClosest_KeepsLast(Tail(points),
                 IF AgeDistance(next, chron) <= AgeDistance(closest, chron)
                 THEN next ELSE closest,
                 chron)

RECURSIVE reduceClosest(_, _, _)
\* normalized.reduce((closest, next) => |next.age - a| < |closest.age - a| ?
\* next : closest, ...) over the remaining points
reduceClosest(points, closest, chron) ==
    IF points = <<>> THEN closest
    ELSE LET next == Head(points)
         IN  reduceClosest(Tail(points),
                 IF AgeDistance(next, chron) < AgeDistance(closest, chron)
                 THEN next ELSE closest,
                 chron)

\* graphMeta.currentPoint (its age and height; x and y are drawing
\* coordinates): the reduce starts from normalized[0] and visits every point
currentPoint(points, chron) == reduceClosest(points, points[1], chron)

\* the values AnalysisResults derives from its props on a render
Derived(h, p, chron) ==
    LET predicted == predictedHeight(h, p)
        points    == graphPoints(h, chron, predicted)
    IN  [kind             |-> "view",
         predictedHeight  |-> predicted,
         predictedRange   |-> predictedRange(predicted),
         osteoAgeScore    |-> osteoAgeScore(p),
         sliderParameters |-> sliderParameters(p),
         graphPoints      |-> points,
         currentPoint     |-> currentPoint(points, chron)]

(***************************************************************************)
(* Rest values of the variable groups a specification does not exercise    *)
(***************************************************************************)
InitialPatientInfo ==
    [birthDate |-> "", heightCm |-> 142, weightKg |-> 38, examDate |-> "today"]

SessionIdle ==
    /\ appState = "IDLE"
    /\ currentFile = Null
    /\ result = Null
    /\ analysisError = Null
    /\ patientInfo = InitialPatientInfo
    /\ inflight = {}
    /\ issued = 0
    /\ liveUrls = {}
    /\ lastEvent = [handler |-> "mount"]

UploadIdle == uploadError = Null

GatewayIdle ==
    /\ gateway = "netlify"
    /\ gwRequest = Null
    /\ upstream = Null
    /\ gwResponse = Null

AgeIdle ==
    /\ birthDate = [kind |-> "absent"]
    /\ referenceDate = [kind |-> "absent"]
    /\ tz = "east"
    /\ now = [kind |-> "date", y |-> 2024, m |-> 5, d |-> 14]
    /\ ticks = 0
    /\ age = Null
    /\ calledAt = Null
    /\ firstAge = Null
    /\ firstAt = Null
    /\ calls = 0
    /\ shown = Null

GrowthIdle ==
    /\ heightCm = 0
    /\ probability = 0
    /\ chronologicalAge = AgeResult(0, 0)
    /\ view = Null
    /\ boneAge = Null

(***************************************************************************)
(* Spec: the App session (src/App.tsx)                                     *)
(*                                                                         *)
(* One action per event handler, taken on the state of the last render.    *)
(* startAnalysis is split at its await: handleFileSelect runs it up to the *)
(* call of analyzeImage, AnalysisResolved / AnalysisRejected are its two   *)
(* continuations, one per settled request.                                 *)
(***************************************************************************)
MaxRequests == 3

Files == {"hand-a.png", "hand-b.jpg"}

FieldValues ==
    [birthDate |-> {"", "2015-03-10"},
     examDate  |-> {"", "today"},
     heightCm  |-> {0, 142},
     weightKg  |-> {0, 38}]

ErrorMessages == {"Failed to read file", "Analyze failed (502)"}

\* isPatientFormComplete without the weightKg conjunct
isPatientFormComplete_NoWeight ==
    /\ patientInfo.birthDate # ""
    /\ patientInfo.examDate # ""
    /\ patientInfo.heightCm # 0

isPatientFormComplete ==
    /\ patientInfo.birthDate # ""
    /\ patientInfo.examDate # ""
    /\ patientInfo.heightCm # 0
    /\ patientInfo.weightKg # 0

UploadedFile(file, url) == [kind |-> "file", file |-> file, previewUrl |-> url]

Request(id, file) == [id |-> id, file |-> file]

\* the AnalysisResult the gateway returns for a request
ResultOf(req) == [kind |-> "result", id |-> req.id, file |-> req.file]

Message(text) == [kind |-> "message", text |-> text]

Event(handler) == [handler |-> handler]

FileEvent(handler, file) == [handler |-> handler, file |-> file]

Init == SessionIdle /\ UploadIdle /\ GatewayIdle /\ AgeIdle /\ GrowthIdle

\* PatientForm is rendered in the IDLE view only
handlePatientInfoChange ==
    /\ appState = "IDLE"
    /\ \E field \in DOMAIN FieldValues :
          \E value \in FieldValues[field] :
              patientInfo' = [patientInfo EXCEPT ![field] = value]
    /\ lastEvent' = Event("handlePatientInfoChange")
    /\ UNCHANGED <<appState, currentFile, result, analysisError, inflight, issued, liveUrls>>
    /\ UNCHANGED <<uploadVars, gatewayVars, ageVars, growthVars>>

\* handleFileSelect(file), with startAnalysis run up to its await
SelectFile(file) ==
    IF ~isPatientFormComplete
    THEN UNCHANGED <<appState, currentFile, result, analysisError, patientInfo,
                     inflight, issued, liveUrls>>         \* alert(...); return
    ELSE /\ issued < MaxRequests
         /\ issued' = issued + 1
         /\ liveUrls' = liveUrls \cup {issued'}           \* URL.createObjectURL
         /\ currentFile' = UploadedFile(file, issued')
         /\ analysisError' = Null
         /\ appState' = "ANALYZING"
         /\ inflight' = inflight \cup {Request(issued', file)}
         /\ UNCHANGED <<result, patientInfo>>

\* FileUpload, which owns the onFileSelect prop, is rendered in the IDLE view only
handleFileSelect ==
    /\ appState = "IDLE"
    /\ \E file \in Files :
          /\ lastEvent' = FileEvent("handleFileSelect", file)
          /\ SelectFile(file)
    /\ UNCHANGED <<uploadVars, gatewayVars, ageVars, growthVars>>

\* the continuation of startAnalysis after `await analyzeImage(file)` returned data
Resolved(req, data) ==
    /\ inflight' = inflight \ {req}
    /\ result' = data
    /\ appState' = "RESULTS"
    /\ lastEvent' = Event("AnalysisResolved")
    /\ uploadError' = Null                                \* FileUpload is not in the RESULTS view
    /\ UNCHANGED <<currentFile, analysisError, patientInfo, issued, liveUrls>>

\* the catch block of startAnalysis, error.message being text
Rejected(req, text) ==
    /\ inflight' = inflight \ {req}
    /\ appState' = "IDLE"
    /\ currentFile' = Null
    /\ analysisError' = Message(text)
    /\ lastEvent' = Event("AnalysisRejected")
    /\ UNCHANGED <<result, patientInfo, issued, liveUrls>>
    /\ UNCHANGED uploadVars

\* `await analyzeImage(file)` returned data
AnalysisResolved ==
    /\ \E req \in inflight : Resolved(req, ResultOf(req))
    /\ UNCHANGED <<gatewayVars, ageVars, growthVars>>

\* the catch block with a retry: startAnalysis is entered again for the same file
AnalysisRejected_Retry ==
    /\ \E req \in inflight :
          /\ issued < MaxRequests
          /\ issued' = issued + 1
          /\ inflight' = (inflight \ {req}) \cup {Request(issued', req.file)}
          /\ lastEvent' = Event("AnalysisRejected")
          /\ UNCHANGED <<appState, currentFile, result, analysisError, patientInfo, liveUrls>>
    /\ UNCHANGED <<uploadVars, gatewayVars, ageVars, growthVars>>

\* `await analyzeImage(file)` threw
AnalysisRejected ==
    /\ \E req \in inflight : \E text \in ErrorMessages : Rejected(req, text)
    /\ UNCHANGED <<gatewayVars, ageVars, growthVars>>

\* SubHeader (onBack, onEdit) is rendered whenever appState is not IDLE
resetApp ==
    /\ appState # "IDLE"
    /\ appState' = "IDLE"
    /\ result' = Null
    /\ analysisError' = Null
    /\ liveUrls' = IF currentFile # Null THEN liveUrls \ {currentFile.previewUrl}
                   ELSE liveUrls                          \* URL.revokeObjectURL
    /\ currentFile' = Null
    /\ lastEvent' = Event("resetApp")
    /\ UNCHANGED <<patientInfo, inflight, issued>>
    /\ UNCHANGED <<uploadVars, gatewayVars, ageVars, growthVars>>

Next ==
    \/ handlePatientInfoChange
    \/ handleFileSelect
    \/ AnalysisResolved
    \/ AnalysisRejected
    \/ resetApp

Spec == Init /\ [][Next]_vars

\* C1: at most one inference request is ever in flight: startAnalysis is never
\* entered while an earlier analyzeImage call is still unresolved.
C1_SingleInFlight == Cardinality(inflight) <= 1

\* a request in flight behind the "analyzing" view
C1_Witness ==
    /\ appState = "ANALYZING"
    /\ Cardinality(inflight) = 1
    /\ currentFile # Null

\* the four fields isPatientFormComplete reads are all set
AllFieldsSet ==
    /\ patientInfo.birthDate # ""
    /\ patientInfo.examDate # ""
    /\ patientInfo.heightCm # 0
    /\ patientInfo.weightKg # 0

\* C15: when an analysis request fails the session returns to IDLE with
\* currentFile cleared and analysisError set to the error's message, the held
\* result is left unchanged, and no request is issued by that step: a request
\* is only ever issued by handleFileSelect (no retry).
C15_FailureReturnsToIdle ==
    [][ /\ (lastEvent' = Event("AnalysisRejected") /\ inflight' # inflight) =>
             /\ appState' = "IDLE"
             /\ currentFile' = Null
             /\ analysisError' \in { Message(text) : text \in ErrorMessages }
             /\ result' = result
             /\ issued' = issued
             /\ inflight' \subseteq inflight
        /\ issued' # issued => lastEvent'.handler = "handleFileSelect"
      ]_vars

\* a request failed while a result was held: the result is still there
C15_Witness ==
    /\ lastEvent = Event("AnalysisRejected")
    /\ appState = "IDLE"
    /\ currentFile = Null
    /\ analysisError # Null
    /\ result # Null

\* C17: after resetApp the result is null and the patient information is back
\* to its initial values.
C17_ResetDestroysBoth ==
    lastEvent = Event("resetApp") =>
        /\ result = Null
        /\ patientInfo = InitialPatientInfo

\* resetApp has run: the result is gone, the patient information is not the
\* initial one
C17_Witness ==
    /\ lastEvent = Event("resetApp")
    /\ result = Null
    /\ patientInfo # InitialPatientInfo

\* C18: handleFileSelect issues no request and leaves appState, currentFile
\* and result unchanged unless birthDate, examDate, heightCm and weightKg are
\* all set; every request is issued from a complete form.
C18_RequestOnlyWhenComplete ==
    [][ /\ (lastEvent'.handler = "handleFileSelect" /\ ~AllFieldsSet) =>
             UNCHANGED <<appState, currentFile, result, inflight, issued>>
        /\ (issued' # issued \/ ~(inflight' \subseteq inflight)) => AllFieldsSet
      ]_vars

\* handleFileSelect was called on an incomplete form and started nothing
C18_Witness ==
    /\ lastEvent.handler = "handleFileSelect"
    /\ ~AllFieldsSet
    /\ appState = "IDLE"
    /\ currentFile = Null
    /\ inflight = {}
    /\ issued = 0

\* C24: in every reachable state of the session, over every interleaving of
\* file selection, reset and request completion (success or failure),
\* appState = RESULTS implies that currentFile and result are both non-null.
C24_ResultsHoldFileAndResult ==
    appState = "RESULTS" => (currentFile # Null /\ result # Null)

\* the RESULTS state with no current file and nothing left in flight
C24_Witness ==
    /\ appState = "RESULTS"
    /\ currentFile = Null
    /\ result # Null
    /\ inflight = {}

\* C25: after resetApp the session stays in IDLE with result = null until the
\* user selects a new file: the completion (success or failure) of a request
\* that was started before the reset changes neither appState, result,
\* currentFile nor analysisError.  Stated on the step that follows resetApp:
\* every request in flight then was started before the reset.
C25_StaleCompletionIgnored ==
    [][ ( /\ lastEvent = Event("resetApp")
          /\ lastEvent' \in {Event("AnalysisResolved"), Event("AnalysisRejected")}
          /\ inflight' # inflight )
        => UNCHANGED <<appState, result, currentFile, analysisError>> ]_vars

\* the only request ever issued was answered after the reset that cleared
\* currentFile, and its answer is on display
C25_Witness ==
    /\ lastEvent = Event("AnalysisResolved")
    /\ issued = 1
    /\ currentFile = Null
    /\ result = ResultOf(Request(1, "hand-a.png"))
    /\ appState = "RESULTS"

\* C26: whenever the session is in RESULTS, the held result is the response to
\* the request that was issued for the file currently held in currentFile; a
\* response to a request for an earlier file is never displayed next to a
\* later file.  (A request and the preview URL of its file carry the same
\* number, the one handleFileSelect drew for them.)
C26_ResultBelongsToCurrentFile ==
    (appState = "RESULTS" /\ currentFile # Null /\ result # Null) =>
        /\ result.id = currentFile.previewUrl
        /\ result.file = currentFile.file

\* the answer for hand-a.png shown next to the later hand-b.jpg
C26_Witness ==
    /\ appState = "RESULTS"
    /\ currentFile # Null /\ result # Null
    /\ currentFile.file = "hand-b.jpg"
    /\ result.file = "hand-a.png"
    /\ result.id < currentFile.previewUrl

\* C27: every preview object URL created by handleFileSelect is revoked by the
\* time its file stops being currentFile: the set of created-but-not-revoked
\* preview URLs contains at most the URL of the current file.
C27_PreviewUrlsRevoked ==
    liveUrls \subseteq
        (IF currentFile = Null THEN {} ELSE {currentFile.previewUrl})

\* a request failed, currentFile is cleared and its preview URL is still live
C27_Witness ==
    /\ lastEvent = Event("AnalysisRejected")
    /\ currentFile = Null
    /\ issued = 1
    /\ liveUrls = {1}

(***************************************************************************)
(* UploadSpec: the session driven through FileUpload (src/unnamed/part_000, *)
(* lines 1-156), whose handlers validate a file before they hand it to     *)
(* onFileSelect = handleFileSelect.                                        *)
(*                                                                         *)
(* A file is {name, size}; a name is the sequence of its characters, so    *)
(* that toLowerCase and endsWith are computed.  ../constants is not part   *)
(* of the sources at hand: its two values are taken from the               *)
(* specification (JPG / PNG, a fixed megabyte ceiling).                    *)
(***************************************************************************)
MaxUploads == 2

MAX_FILE_SIZE_MB == 10

SUPPORTED_FILE_TYPES ==
    ("image/jpeg" :> << <<".", "j", "p", "g">>, <<".", "j", "p", "e", "g">> >>)
        @@ ("image/png" :> << <<".", "p", "n", "g">> >>)

UpperCase == <<"A", "B", "C", "D", "E", "F", "G", "H", "I", "J", "K", "L", "M",
               "N", "O", "P", "Q", "R", "S", "T", "U", "V", "W", "X", "Y", "Z">>

LowerCase == <<"a", "b", "c", "d", "e", "f", "g", "h", "i", "j", "k", "l", "m",
               "n", "o", "p", "q", "r", "s", "t", "u", "v", "w", "x", "y", "z">>

toLowerCase(str) ==
    [i \in DOMAIN str |->
        IF \E k \in DOMAIN UpperCase : UpperCase[k] = str[i]
        THEN LowerCase[CHOOSE k \in DOMAIN UpperCase : UpperCase[k] = str[i]]
        ELSE str[i]]

endsWith(str, suffix) ==
    /\ Len(suffix) <= Len(str)
    /\ SubSeq(str, Len(str) - Len(suffix) + 1, Len(str)) = suffix

\* Object.values(obj).flat(), as the set of its elements
FlatValues(obj) == UNION { { obj[k][i] : i \in DOMAIN obj[k] } : k \in DOMAIN obj }

File(name, size) == [name |-> name, size |-> size]

\* files at, above and far below the size ceiling, with a supported extension
\* in lower and in upper case, with an unsupported one, and with a name that
\* ends in "png" without the dot
PickedFiles ==
    LET ceiling == MAX_FILE_SIZE_MB * 1024 * 1024
    IN  { File(<<"a", ".", "p", "n", "g">>, ceiling),
          File(<<"A", ".", "J", "P", "G">>, 1),
          File(<<"a", ".", "p", "n", "g">>, ceiling + 1),
          File(<<"a", ".", "p", "d", "f">>, 1),
          File(<<"a", "p", "n", "g">>, 1) }

FileTooLarge == "file size may not exceed MAX_FILE_SIZE_MB MB"

UnsupportedType == "unsupported file type: upload a JPG or PNG file"

\* validateFile rejecting a file of exactly the ceiling size (>= for >)
validateFile_AtCeilingRejected(file) ==
    IF file.size >= MAX_FILE_SIZE_MB * 1024 * 1024
    THEN [valid |-> FALSE, error |-> Message(FileTooLarge)]
    ELSE IF ~ \E ext \in FlatValues(SUPPORTED_FILE_TYPES) :
                  endsWith(toLowerCase(file.name), ext)
    THEN [valid |-> FALSE, error |-> Message(UnsupportedType)]
    ELSE [valid |-> TRUE, error |-> Null]

\* the value returned and the value given to setError
validateFile(file) ==
    IF file.size > MAX_FILE_SIZE_MB * 1024 * 1024
    THEN [valid |-> FALSE, error |-> Message(FileTooLarge)]
    ELSE IF ~ \E ext \in FlatValues(SUPPORTED_FILE_TYPES) :
                  endsWith(toLowerCase(file.name), ext)
    THEN [valid |-> FALSE, error |-> Message(UnsupportedType)]
    ELSE [valid |-> TRUE, error |-> Null]

\* the body shared by handleDrop and handleFileInput, `disabled` being
\* !isPatientFormComplete: if (disabled) return; if (validateFile(file))
\* onFileSelect(file)
Offer(handler, file) ==
    /\ lastEvent' = FileEvent(handler, file)
    /\ IF ~isPatientFormComplete
       THEN UNCHANGED <<appState, currentFile, result, analysisError, patientInfo,
                        inflight, issued, liveUrls, uploadError>>
       ELSE IF validateFile(file).valid
       THEN /\ uploadError' = validateFile(file).error
            /\ SelectFile(file)
       ELSE /\ uploadError' = validateFile(file).error
            /\ UNCHANGED <<appState, currentFile, result, analysisError, patientInfo,
                            inflight, issued, liveUrls>>

handleDrop ==
    /\ appState = "IDLE"
    /\ issued < MaxUploads
    /\ \E file \in PickedFiles : Offer("handleDrop", file)
    /\ UNCHANGED <<gatewayVars, ageVars, growthVars>>

handleFileInput ==
    /\ appState = "IDLE"
    /\ issued < MaxUploads
    /\ \E file \in PickedFiles : Offer("handleFileInput", file)
    /\ UNCHANGED <<gatewayVars, ageVars, growthVars>>

UploadNext ==
    \/ handlePatientInfoChange
    \/ handleDrop
    \/ handleFileInput
    \/ AnalysisResolved
    \/ AnalysisRejected
    \/ resetApp

UploadSpec == Init /\ [][UploadNext]_vars

\* the file has a supported extension and is no larger than the ceiling
Acceptable(file) ==
    /\ file.size <= MAX_FILE_SIZE_MB * 1024 * 1024
    /\ \E ext \in { <<".", "j", "p", "g">>, <<".", "j", "p", "e", "g">>, <<".", "p", "n", "g">> } :
           endsWith(toLowerCase(file.name), ext)

\* C14: a file with an unsupported extension, or larger than
\* MAX_FILE_SIZE_MB * 1024 * 1024 bytes by at least one byte, offered to an
\* enabled FileUpload by drop or by the file input, sets an error message and
\* is not passed to onFileSelect; no request is ever in flight for such a
\* file; a file of exactly the ceiling size with a supported extension is
\* accepted: the error is cleared and its request is started.
C14_InvalidFileRejected ==
    [][ /\ \A file \in PickedFiles :
              ( /\ lastEvent' \in { FileEvent("handleDrop", file),
                                    FileEvent("handleFileInput", file) }
                /\ AllFieldsSet ) =>
                  IF Acceptable(file)
                  THEN /\ uploadError' = Null
                       /\ issued' = issued + 1
                       /\ Request(issued', file) \in inflight'
                       /\ currentFile' = UploadedFile(file, issued')
                  ELSE /\ uploadError' # Null
                       /\ UNCHANGED <<appState, currentFile, result, analysisError,
                                       inflight, issued, liveUrls>>
        /\ \A req \in inflight' : Acceptable(req.file)
      ]_vars

\* an oversized file was dropped on the enabled upload: the error is shown and
\* nothing was started
C14_Witness ==
    /\ \E file \in PickedFiles :
          /\ lastEvent = FileEvent("handleDrop", file)
          /\ file.size = MAX_FILE_SIZE_MB * 1024 * 1024 + 1
    /\ AllFieldsSet
    /\ uploadError = Message(FileTooLarge)
    /\ appState = "IDLE"
    /\ inflight = {}

(***************************************************************************)
(* GatewaySpec: the /api/analyze gateway in its two implementations, the   *)
(* Netlify function (src/netlify/functions/analyze.js) and the Vite dev    *)
(* middleware (src/vite.config.ts), between a request, the upstream OpenAI *)
(* call and the browser session that awaits the answer.                    *)
(*                                                                         *)
(* JavaScript values are tagged records: null, undefined, number, string,  *)
(* array, object.  A number that is a fraction (a probability, a relative  *)
(* coordinate) is held in 1/ProbDen.  A text that is handed to JSON.parse  *)
(* carries what parsing it yields.                                         *)
(***************************************************************************)
Undefined == [kind |-> "undefined"]

Num(n) == [kind |-> "number", n |-> n]

Str(s) == [kind |-> "string", s |-> s]

Arr(items) == [kind |-> "array", items |-> items]

Obj(fields) == [kind |-> "object", fields |-> fields]

\* a string made of the given segments, e.g. a data URL
Url(segments) == [kind |-> "string", segments |-> segments]

SyntaxError == [kind |-> "SyntaxError"]

\* a JSON text: chars tells '' ("empty") and all-whitespace ("blank") from
\* the rest, json is what JSON.parse returns for it, or SyntaxError
Text(chars, json) == [kind |-> "string", chars |-> chars, json |-> json]

JSONparse(text) == text.json

Nullish(v) == v.kind \in {"null", "undefined"}

\* v?.key for a property name key
Get(v, key) ==
    IF v.kind = "object" /\ key \in DOMAIN v.fields THEN v.fields[key] ELSE Undefined

\* Math.max(0, Math.min(1, x)) on a number in 1/ProbDen
Clamp01(n) == Max(0, Min(ProbDen, n))

RECURSIVE FirstPartText(_)
\* the inner loop of extractOutputText over one content array
FirstPartText(parts) ==
    IF parts = <<>> THEN Undefined
    ELSE LET text == Get(Head(parts), "text")
         IN  IF text.kind = "string" /\ text.chars = "other" THEN text
             ELSE FirstPartText(Tail(parts))

RECURSIVE FirstItemText(_)
\* the outer loop of extractOutputText over the output array
FirstItemText(items) ==
    IF items = <<>> THEN Text("empty", SyntaxError)
    ELSE LET content == Get(Head(items), "content")
             found   == IF content.kind = "array" THEN FirstPartText(content.items)
                        ELSE Undefined
         IN  IF found.kind # "undefined" THEN found ELSE FirstItemText(Tail(items))

\* extractOutputText (the same function in both files)
extractOutputText(payload) ==
    IF Get(payload, "output_text").kind = "string" THEN Get(payload, "output_text")
    ELSE LET output == Get(payload, "output")
         IN  IF output.kind # "array" THEN Text("empty", SyntaxError)
             ELSE FirstItemText(output.items)

\* imageDataUrl.startsWith('data:image/')
startsWithDataImage(str) ==
    /\ Len(str.segments) >= 2
    /\ str.segments[1] = "data:"
    /\ str.segments[2] = "image/"

\* an object with the properties of `all` whose value is not undefined
ObjOf(all) == Obj([k \in { key \in DOMAIN all : all[key].kind # "undefined" } |-> all[k]])

BoundingBox(x, y, width, height, label) ==
    ObjOf([x |-> Num(x), y |-> Num(y), width |-> Num(width), height |-> Num(height),
           label |-> label])

GoodBox == BoundingBox(1, 2, ProbDen \div 2, ProbDen, Str("growth plate"))

\* what the model may have written for each property of its answer
ProbabilityValues ==
    { Undefined, Str("0.7"), Num(-(ProbDen \div 2)), Num(0), Num(ProbDen \div 2 + 1),
      Num(ProbDen), Num(ProbDen + ProbDen \div 2) }

SeverityValues ==
    { Undefined, Str("Low"), Str("Medium"), Str("High"), Str("Critical"), Str("low") }

BoundingBoxesValues ==
    { Undefined, Str("none"), Arr(<<>>), Arr(<<GoodBox>>),
      Arr(<<GoodBox, BoundingBox(ProbDen + ProbDen \div 2, -1, 2 * ProbDen, 1, Str("wrist"))>>),
      Arr(<<BoundingBox(0, 0, 1, 1, Undefined)>>),
      Arr(<<Num(3)>>) }

ModelAnswer(probabilityValue, severityValue, boxes, finding) ==
    ObjOf([probability |-> probabilityValue, severity |-> severityValue,
           boundingBoxes |-> boxes, finding |-> finding])

ModelAnswers ==
    { ModelAnswer(p, s, Arr(<<GoodBox>>), Str("widened growth plate")) :
          p \in ProbabilityValues, s \in SeverityValues }
    \cup { ModelAnswer(Num(ProbDen \div 2), Str("Medium"), b, f) :
               b \in BoundingBoxesValues, f \in {Undefined, Str("widened growth plate")} }

\* the output text of the model: '', blanks, prose, and JSON texts
ModelTexts ==
    { Text("empty", SyntaxError), Text("blank", SyntaxError), Text("other", SyntaxError),
      Text("other", Null), Text("other", Num(42)) }
    \cup { Text("other", answer) : answer \in ModelAnswers }

GoodText == Text("other", ModelAnswer(Num(ProbDen \div 2), Str("Medium"), Arr(<<GoodBox>>),
                                      Str("widened growth plate")))

Part(text) == Obj("text" :> text)

Item(parts) == Obj("content" :> Arr(parts))

\* bodies of a 2xx upstream response: not JSON (null), output_text, and the
\* shapes of the output array that extractOutputText walks
OutputPayloads ==
    { Null }
    \cup { Obj("output_text" :> text) : text \in ModelTexts }
    \cup { Obj("output" :> Str("n/a")),
           Obj("output" :> Arr(<<>>)),
           Obj("output" :> Arr(<<Obj("content" :> Str("n/a"))>>)),
           Obj("output" :> Arr(<<Item(<<Part(Text("blank", SyntaxError)), Part(GoodText)>>)>>)),
           Obj("output" :> Arr(<<Obj("id" :> Str("rs_1")),
                                 Item(<<Obj("type" :> Str("refusal")),
                                        Part(Text("other", SyntaxError))>>)>>)),
           Obj(("output_text" :> Num(1)) @@ ("output" :> Arr(<<Item(<<Part(GoodText)>>)>>))) }

\* bodies of a failed upstream response
ErrorPayloads ==
    { Null,
      Obj("error" :> Obj(("message" :> Str("Incorrect API key provided"))
                             @@ ("type" :> Str("invalid_api_key")))),
      Obj("error" :> Obj("code" :> Str("rate_limit_exceeded"))) }

Response(status, statusText, payload) ==
    [kind |-> "response", status |-> status, statusText |-> statusText, payload |-> payload]

\* what fetch(...) to the upstream does: it rejects, or it resolves to a
\* response whose body openaiRes.json().catch(() => null) has read
UpstreamReplies ==
    { [kind |-> "throws", message |-> "fetch failed"] }
    \cup { Response(200, "OK", payload) : payload \in OutputPayloads }
    \cup { Response(status, "", payload) : status \in {401, 429, 500}, payload \in ErrorPayloads }

ok(response) == 200 <= response.status /\ response.status <= 299

DataUrl == Url(<<"data:", "image/", "png", ";base64,iVBORw0KGgo=">>)

\* the body analyzeImage posts
ClientBody == Text("other", Obj(("imageDataUrl" :> DataUrl) @@ ("fileName" :> Str("hand-a.png"))))

RequestBodies ==
    { Undefined, Text("empty", SyntaxError), Text("blank", SyntaxError),
      Text("other", SyntaxError),
      Text("other", Null),                                 \* the JSON text null
      Text("other", Obj("fileName" :> Str("hand-a.png"))),
      Text("other", Obj("imageDataUrl" :> Num(7))),
      Text("other", Obj("imageDataUrl" :> Url(<<>>))),
      Text("other", Obj("imageDataUrl" :> Url(<<"https://", "example.org/hand.png">>))),
      Text("other", Obj("imageDataUrl" :> Url(<<"data:", "text/", "plain", ";base64,QUJD">>))),
      ClientBody }

HttpRequest(method, apiKey, body) == [method |-> method, apiKey |-> apiKey, body |-> body]

\* apiKey is the deployment's OPENAI_API_KEY: set, all blanks, or not set
GatewayRequests ==
    { HttpRequest("POST", "set", body) : body \in RequestBodies }
    \cup { HttpRequest(method, "set", ClientBody) : method \in {"GET", "OPTIONS"} }
    \cup { HttpRequest("POST", apiKey, ClientBody) : apiKey \in {"blank", "unset"} }
    \cup { HttpRequest(method, "unset", Text("other", SyntaxError)) :
               method \in {"GET", "POST"} }

json(statusCode, body) == [statusCode |-> statusCode, body |-> body]

\* the properties of a success body that do not come from the model
Stamped(body) ==
    body @@ [id |-> "randomUUID()", analysisDate |-> "new Date().toISOString()",
             modality |-> "X-RAY/IMG", patientId |-> "ANON-nnnn"]

\* String(value ?? '')
StringOrEmpty(value) ==
    IF Nullish(value) THEN "" ELSE IF value.kind = "string" THEN value.s ELSE "String(value)"

\* payloadError?.message ?? openaiRes.statusText
UpstreamMessage(response) ==
    LET message == Get(Get(response.payload, "error"), "message")
    IN  IF Nullish(message) THEN Str(response.statusText) ELSE message

invalidApiKey(response) ==
    \/ response.status = 401
    \/ Get(Get(response.payload, "error"), "type") = Str("invalid_api_key")
    \/ Get(Get(response.payload, "error"), "code") = Str("invalid_api_key")

UpstreamFailure(response) ==
    LET status == IF response.status # 0 THEN response.status ELSE 502
    IN  json(status, [error |-> "OpenAI request failed", status |-> status,
                      message |-> UpstreamMessage(response), details |-> response.payload,
                      invalidApiKey |-> invalidApiKey(response)])

\* the result object of the Netlify handler with the probability passed through
\* unclamped
NetlifyResult_NoClamp(parsed) ==
    LET p == Get(parsed, "probability")
        severity == Get(parsed, "severity")
        boxes == Get(parsed, "boundingBoxes")
    IN  json(200, Stamped(
            [finding       |-> StringOrEmpty(Get(parsed, "finding")),
             probability   |-> IF p.kind = "number" THEN p.n ELSE 0,
             severity      |-> IF severity \in {Str("High"), Str("Medium"), Str("Low")}
                               THEN severity.s ELSE "Low",
             boundingBoxes |-> IF boxes.kind = "array" THEN boxes.items ELSE <<>>]))

\* analyze.js lines 165-182: the 200 response built from the parsed answer
NetlifyResult(parsed) ==
    LET p == Get(parsed, "probability")
        severity == Get(parsed, "severity")
        boxes == Get(parsed, "boundingBoxes")
    IN  json(200, Stamped(
            [finding       |-> StringOrEmpty(Get(parsed, "finding")),
             probability   |-> IF p.kind = "number" THEN Clamp01(p.n) ELSE 0,
             severity      |-> IF severity \in {Str("High"), Str("Medium"), Str("Low")}
                               THEN severity.s ELSE "Low",
             boundingBoxes |-> IF boxes.kind = "array" THEN boxes.items ELSE <<>>]))

\* the Netlify handler answering 200 with an empty result when the model's
\* text does not parse
handler_EmptyResultOnBadText(request, reply) ==
    IF request.method = "OPTIONS" THEN json(204, [kind |-> "empty"])
    ELSE IF request.method # "POST" THEN json(405, [error |-> "Method Not Allowed"])
    ELSE IF request.apiKey # "set"
    THEN json(500, [error |-> "Missing OPENAI_API_KEY",
                    message |-> Str("add OPENAI_API_KEY to the environment variables of the site")])
    ELSE LET raw  == request.body
             body == IF Nullish(raw) \/ raw.chars = "empty" THEN Obj(<<>>) ELSE JSONparse(raw)
             imageDataUrl == Get(body, "imageDataUrl")
         IN  IF body = SyntaxError THEN json(400, [error |-> "Invalid JSON body"])
             ELSE IF imageDataUrl.kind # "string" \/ ~startsWithDataImage(imageDataUrl)
             THEN json(400, [error |-> "imageDataUrl is required (data URL)"])
             ELSE IF reply.kind = "throws"
             THEN json(500, [error |-> "Analyze failed", message |-> Str(reply.message)])
             ELSE IF ~ok(reply) THEN UpstreamFailure(reply)
             ELSE LET text   == extractOutputText(reply.payload)
                      parsed == JSONparse(text)
                  IN  IF parsed = SyntaxError THEN NetlifyResult(Obj(<<>>))
                      ELSE IF Nullish(parsed)
                      THEN json(500, [error |-> "Analyze failed",
                                      message |-> Str("Cannot read properties of null")])
                      ELSE NetlifyResult(parsed)

\* analyze.js handler: the response to `request` when the upstream call, if it
\* is made, behaves as `reply`
handler(request, reply) ==
    IF request.method = "OPTIONS" THEN json(204, [kind |-> "empty"])
    ELSE IF request.method # "POST" THEN json(405, [error |-> "Method Not Allowed"])
    ELSE IF request.apiKey # "set"
    THEN json(500, [error |-> "Missing OPENAI_API_KEY",
                    message |-> Str("add OPENAI_API_KEY to the environment variables of the site")])
    ELSE LET raw  == request.body
             body == IF Nullish(raw) \/ raw.chars = "empty" THEN Obj(<<>>) ELSE JSONparse(raw)
             imageDataUrl == Get(body, "imageDataUrl")
         IN  IF body = SyntaxError THEN json(400, [error |-> "Invalid JSON body"])
             ELSE IF imageDataUrl.kind # "string" \/ ~startsWithDataImage(imageDataUrl)
             THEN json(400, [error |-> "imageDataUrl is required (data URL)"])
             ELSE IF reply.kind = "throws"
             THEN json(500, [error |-> "Analyze failed", message |-> Str(reply.message)])
             ELSE IF ~ok(reply) THEN UpstreamFailure(reply)
             ELSE LET text   == extractOutputText(reply.payload)
                      parsed == JSONparse(text)
                  IN  IF parsed = SyntaxError
                      THEN json(502, [error |-> "Failed to parse model JSON output",
                                      raw |-> text])
                      ELSE IF Nullish(parsed)
                      THEN json(500, [error |-> "Analyze failed",
                                      message |-> Str("Cannot read properties of null")])
                      ELSE NetlifyResult(parsed)

\* vite.config.ts lines 181-199: the 200 response built from the parsed answer
ViteResult(parsed) ==
    LET p == Get(parsed, "probability")
        severity == Get(parsed, "severity")
        boxes == Get(parsed, "boundingBoxes")
    IN  json(200, Stamped(
            [finding       |-> StringOrEmpty(Get(parsed, "finding")),
             probability   |-> IF p.kind = "number" THEN Clamp01(p.n) ELSE 0,
             severity      |-> IF severity \in {Str("High"), Str("Medium"), Str("Low")}
                               THEN severity.s ELSE "Low",
             boundingBoxes |-> IF boxes.kind = "array" THEN boxes.items ELSE <<>>]))

\* the promise of the Vite handler rejects before anything is written to res
\* and the middleware drops it (void handler(req, res)): the client is sent no
\* response, which status 0 stands for
NoResponse(message) == json(0, [error |-> "unhandled rejection", message |-> Str(message)])

\* vite.config.ts openAIAnalyzeProxy handler (readJsonBody trims the body and
\* reads an empty one as {}); body.imageDataUrl is read outside the try blocks
\* and throws a TypeError when the body is the JSON value null
openAIAnalyzeProxy(request, reply) ==
    IF request.method # "POST" THEN json(405, [error |-> "Method Not Allowed"])
    ELSE IF request.apiKey # "set"
    THEN json(500, [error |-> "Missing OPENAI_API_KEY in .env.local"])
    ELSE LET raw  == request.body
             body == IF Nullish(raw) \/ raw.chars \in {"empty", "blank"} THEN Obj(<<>>)
                     ELSE JSONparse(raw)
             imageDataUrl == Get(body, "imageDataUrl")
         IN  IF body = SyntaxError THEN json(400, [error |-> "Invalid JSON body"])
             ELSE IF Nullish(body)
             THEN NoResponse("Cannot read properties of null (reading imageDataUrl)")
             ELSE IF imageDataUrl.kind # "string" \/ Len(imageDataUrl.segments) = 0
             THEN json(400, [error |-> "imageDataUrl is required"])
             ELSE IF reply.kind = "throws"
             THEN json(500, [error |-> "Analyze failed", message |-> Str(reply.message)])
             ELSE IF ~ok(reply) THEN UpstreamFailure(reply)
             ELSE LET text   == extractOutputText(reply.payload)
                      parsed == JSONparse(text)
                  IN  IF parsed = SyntaxError
                      THEN json(502, [error |-> "Failed to parse model JSON output",
                                      raw |-> text])
                      ELSE IF Nullish(parsed)
                      THEN json(500, [error |-> "Analyze failed",
                                      message |-> Str("Cannot read properties of null")])
                      ELSE ViteResult(parsed)

Gateways == {"netlify", "vite"}

Serve(impl, request, reply) ==
    IF impl = "netlify" THEN handler(request, reply) ELSE openAIAnalyzeProxy(request, reply)

\* extractApiError on the body of a failed response: payload.message if it is
\* truthy, else payload.error (a string in every gateway body)
extractApiError(response) ==
    LET payload == response.body
    IN  IF /\ "message" \in DOMAIN payload
           /\ payload.message.kind = "string"
           /\ payload.message.s # ""
        THEN payload.message.s
        ELSE payload.error

\* the request analyzeImage posts, whatever the deployment's key is
FromClient(request) == request.method = "POST" /\ request.body = ClientBody

\* the session at the await of startAnalysis, hand-a.png having been selected
\* on a complete form
AwaitingAnalysis ==
    /\ appState = "ANALYZING"
    /\ currentFile = UploadedFile("hand-a.png", 1)
    /\ result = Null
    /\ analysisError = Null
    /\ patientInfo = [InitialPatientInfo EXCEPT !.birthDate = "2015-03-10"]
    /\ inflight = {Request(1, "hand-a.png")}
    /\ issued = 1
    /\ liveUrls = {1}
    /\ lastEvent = FileEvent("handleFileSelect", "hand-a.png")

GatewayInit ==
    /\ gateway \in Gateways
    /\ gwRequest \in GatewayRequests
    /\ upstream \in UpstreamReplies
    /\ gwResponse = Null
    /\ AwaitingAnalysis
    /\ UploadIdle
    /\ AgeIdle
    /\ GrowthIdle

\* the gateway handles the request and answers
Answer ==
    /\ gwResponse = Null
    /\ gwResponse' = Serve(gateway, gwRequest, upstream)
    /\ UNCHANGED <<gateway, gwRequest, upstream>>
    /\ UNCHANGED <<sessionVars, uploadVars, ageVars, growthVars>>

\* analyzeImage receives the answer to its request: it returns response.json()
\* on a 2xx status and throws Error(extractApiError(...)) otherwise, and
\* startAnalysis continues
Settle ==
    /\ gwResponse # Null
    /\ FromClient(gwRequest)
    /\ \E req \in inflight :
          IF 200 <= gwResponse.statusCode /\ gwResponse.statusCode <= 299
          THEN Resolved(req, gwResponse.body)
          ELSE Rejected(req, extractApiError(gwResponse))
    /\ UNCHANGED <<gatewayVars, ageVars, growthVars>>

GatewayNext == Answer \/ Settle

GatewaySpec == GatewayInit /\ [][GatewayNext]_vars

(***************************************************************************)
(* Properties of the gateway (checked under GatewaySpec)                   *)
(***************************************************************************)
Answered == gwResponse # Null

\* whether the handler calls the upstream for a request: it does exactly when
\* its response depends on what the upstream replies
UpstreamCalled(impl, request) ==
    \E r1, r2 \in UpstreamReplies : Serve(impl, request, r1) # Serve(impl, request, r2)

\* what JSON.parse yields for the text the upstream delivered
UpstreamParsed == JSONparse(extractOutputText(upstream.payload))

\* C12: every 200 response carries a probability in [0,1], an out-of-range
\* upstream number being clamped to the nearer bound and a non-number
\* becoming 0, and a severity in {Low, Medium, High}, any other upstream value
\* becoming Low.
C12_ProbabilityAndSeverityNormalised ==
    (Answered /\ gwResponse.statusCode = 200) =>
        LET sent == Get(UpstreamParsed, "probability")
            sev  == Get(UpstreamParsed, "severity")
            body == gwResponse.body
        IN  /\ 0 <= body.probability /\ body.probability <= ProbDen
            /\ sent.kind # "number" => body.probability = 0
            /\ sent.kind = "number" =>
                  /\ sent.n < 0 => body.probability = 0
                  /\ sent.n > ProbDen => body.probability = ProbDen
                  /\ (0 <= sent.n /\ sent.n <= ProbDen) => body.probability = sent.n
            /\ body.severity \in {"Low", "Medium", "High"}
            /\ IF sev \in {Str("Low"), Str("Medium"), Str("High")}
               THEN body.severity = sev.s
               ELSE body.severity = "Low"

\* the model answered probability 1.5 and severity "Critical": the response
\* says 1 and "Low"
C12_Witness ==
    /\ Answered
    /\ gwResponse.statusCode = 200
    /\ Get(UpstreamParsed, "probability").kind = "number"
    /\ Get(UpstreamParsed, "probability").n > ProbDen
    /\ Get(UpstreamParsed, "severity") = Str("Critical")
    /\ gwResponse.body.probability = ProbDen
    /\ gwResponse.body.severity = "Low"

\* a bounding box as the schema has it: x, y, width and height numbers in
\* [0,1] and a label
WellFormedBox(box) ==
    /\ \A key \in {"x", "y", "width", "height"} :
          /\ Get(box, key).kind = "number"
          /\ 0 <= Get(box, key).n /\ Get(box, key).n <= ProbDen
    /\ Get(box, "label").kind = "string"

\* C13: in every 200 response each bounding box has x, y, width and height in
\* [0,1] and a label, whatever the upstream model returned.
C13_BoundingBoxesValidated ==
    (Answered /\ gwResponse.statusCode = 200) =>
        \A i \in DOMAIN gwResponse.body.boundingBoxes :
            WellFormedBox(gwResponse.body.boundingBoxes[i])

\* a 200 response that carries the model's box with x = 1.5 as it came
C13_Witness ==
    /\ Answered
    /\ gwResponse.statusCode = 200
    /\ \E i \in DOMAIN gwResponse.body.boundingBoxes :
          /\ Get(gwResponse.body.boundingBoxes[i], "x").kind = "number"
          /\ Get(gwResponse.body.boundingBoxes[i], "x").n > ProbDen

\* the upstream call was made and answered 2xx, and the text extractOutputText
\* finds in its body is not JSON
UnparseableAnswer ==
    /\ UpstreamCalled(gateway, gwRequest)
    /\ upstream.kind = "response"
    /\ ok(upstream)
    /\ UpstreamParsed = SyntaxError

\* C16: when the upstream call succeeds but the model's output text is not
\* parseable JSON (the empty text of extractOutputText included), the gateway
\* answers the analysis request with an error status (502), never with 200,
\* and the session then ends in IDLE with a non-null, non-empty error message.
C16_UnparseableOutputIsAnError ==
    (Answered /\ UnparseableAnswer /\ gwRequest.method = "POST") =>
        /\ gwResponse.statusCode # 200
        /\ gwResponse.statusCode >= 400
        /\ (FromClient(gwRequest) /\ gwRequest.apiKey = "set") =>
              /\ gwResponse.statusCode = 502
              /\ inflight = {} =>
                    /\ appState = "IDLE"
                    /\ result = Null
                    /\ analysisError # Null
                    /\ analysisError.text # ""

\* the upstream body had no text at all: 502, and the session is back in IDLE
\* showing the gateway's error
C16_Witness ==
    /\ Answered
    /\ FromClient(gwRequest) /\ gwRequest.apiKey = "set"
    /\ upstream.kind = "response" /\ ok(upstream)
    /\ extractOutputText(upstream.payload) = Text("empty", SyntaxError)
    /\ gwResponse.statusCode = 502
    /\ inflight = {}
    /\ appState = "IDLE"
    /\ analysisError = Message("Failed to parse model JSON output")

\* the validation outcome the four checks, taken in the stated order, give a
\* request: 0 when all four pass
OrderedChecks(request) ==
    IF request.method # "POST" THEN 405
    ELSE IF request.apiKey # "set" THEN 500
    ELSE IF ~Nullish(request.body) /\ request.body.chars # "empty"
            /\ JSONparse(request.body) = SyntaxError THEN 400
    ELSE 0

\* C30: the two gateway implementations (the Netlify function and the Vite
\* dev/preview proxy) are equivalent: for the same request and the same
\* upstream reply they return the same status code and make an upstream call
\* in exactly the same cases, checking method, then API key, then JSON body,
\* then imageDataUrl in that order.
C30_GatewaysEquivalent ==
    Answered =>
        LET netlify == handler(gwRequest, upstream)
            vite    == openAIAnalyzeProxy(gwRequest, upstream)
        IN  /\ netlify.statusCode = vite.statusCode
            /\ UpstreamCalled("netlify", gwRequest) <=> UpstreamCalled("vite", gwRequest)
            /\ OrderedChecks(gwRequest) # 0 =>
                  /\ gwResponse.statusCode = OrderedChecks(gwRequest)
                  /\ ~UpstreamCalled(gateway, gwRequest)

\* the Vite proxy has forwarded an https URL to the upstream and answered 200
\* where the Netlify function answers 400 without an upstream call
C30_Witness ==
    /\ Answered
    /\ gateway = "vite"
    /\ gwRequest = HttpRequest("POST", "set",
           Text("other", Obj("imageDataUrl" :> Url(<<"https://", "example.org/hand.png">>))))
    /\ gwResponse.statusCode = 200
    /\ UpstreamCalled("vite", gwRequest)
    /\ handler(gwRequest, upstream).statusCode = 400
    /\ ~UpstreamCalled("netlify", gwRequest)

(***************************************************************************)
(* AgeSpec: the functions of age.ts called on fixed arguments while the    *)
(* wall clock advances                                                     *)
(***************************************************************************)
AgeInit ==
    /\ birthDate \in DateInputs
    /\ referenceDate \in DateInputs
    /\ tz \in Zones
    /\ now \in ClockSamples
    /\ ticks = 0
    /\ age = Null
    /\ calledAt = Null
    /\ firstAge = Null
    /\ firstAt = Null
    /\ calls = 0
    /\ shown = Null
    /\ SessionIdle
    /\ UploadIdle
    /\ GatewayIdle
    /\ GrowthIdle

\* the clock readings a call that starts at `clock` can see for its second
\* `new Date()`: the same day, or the next one when midnight passes in between
SecondReadings(clock, t) ==
    IF t < MaxTicks THEN {clock, NextDay(clock)} ELSE {clock}

CallCalculateAge ==
    /\ calls < MaxCalls
    /\ \E later \in SecondReadings(now, ticks) :
          /\ age' = calculateAge(birthDate, referenceDate, tz, now, later)
          /\ now' = later
          /\ ticks' = IF later = now THEN ticks ELSE ticks + 1
    /\ calledAt' = now
    /\ firstAge' = IF calls = 0 THEN age' ELSE firstAge
    /\ firstAt' = IF calls = 0 THEN now ELSE firstAt
    /\ calls' = calls + 1
    /\ UNCHANGED <<birthDate, referenceDate, tz, shown>>
    /\ UNCHANGED <<sessionVars, uploadVars, gatewayVars, growthVars>>

Tick ==
    /\ ticks < MaxTicks
    /\ now' = NextDay(now)
    /\ ticks' = ticks + 1
    /\ UNCHANGED <<birthDate, referenceDate, tz, age, calledAt, firstAge, firstAt, calls, shown>>
    /\ UNCHANGED <<sessionVars, uploadVars, gatewayVars, growthVars>>

CallFormatDate ==
    /\ shown' = formatDateKR(referenceDate, tz)
    /\ UNCHANGED <<birthDate, referenceDate, tz, now, ticks, age, calledAt, firstAge, firstAt,
                   calls>>
    /\ UNCHANGED <<sessionVars, uploadVars, gatewayVars, growthVars>>

CallFormatAge ==
    /\ age # Null
    /\ shown' = formatAgeKR(age)
    /\ UNCHANGED <<birthDate, referenceDate, tz, now, ticks, age, calledAt, firstAge, firstAt,
                   calls>>
    /\ UNCHANGED <<sessionVars, uploadVars, gatewayVars, growthVars>>

AgeNext == CallCalculateAge \/ Tick \/ CallFormatDate \/ CallFormatAge

AgeSpec == AgeInit /\ [][AgeNext]_vars


(***************************************************************************)
(* Properties of age.ts (checked under AgeSpec)                            *)
(***************************************************************************)
\* calendar order on 'YYYY-MM-DD' arguments
IsoLT(a, b) ==
    \/ a.y < b.y
    \/ a.y = b.y /\ a.mm < b.mm
    \/ a.y = b.y /\ a.mm = b.mm /\ a.dd < b.dd

IsoLE(a, b) == a = b \/ IsoLT(a, b)

BothValid == IsValidInput(birthDate) /\ IsValidInput(referenceDate)

Called == calls > 0

\* the calendar date of a Date value as a 'YYYY-MM-DD' argument
AsIso(date) == IsoDate(date.y, date.m + 1, date.d)

\* C2: for valid dates with reference on or after birth, calculateAge returns
\* years >= 0 and months in 0..11.
C2_AgeInRange ==
    (Called /\ BothValid /\ IsoLE(birthDate, referenceDate))
        => /\ age.kind = "age"
           /\ age.years >= 0
           /\ age.months \in 0 .. 11

C2_Witness ==
    /\ Called /\ BothValid /\ IsoLT(birthDate, referenceDate)
    /\ referenceDate.mm < birthDate.mm
    /\ age.kind = "age" /\ age.years > 0 /\ age.months > 0

\* C3: for valid dates with the reference strictly before the birth date,
\* calculateAge returns exactly {years: 0, months: 0}.
C3_BeforeBirthIsZero ==
    (Called /\ BothValid /\ IsoLT(referenceDate, birthDate))
        => age = AgeResult(0, 0)

C3_Witness ==
    /\ Called /\ BothValid
    /\ referenceDate.y = birthDate.y
    /\ referenceDate.mm > birthDate.mm - 12 /\ referenceDate.mm < birthDate.mm
    /\ referenceDate.dd > birthDate.dd
    /\ age = AgeResult(0, 0)

\* C4: for valid dates with reference >= birth, calculateAge counts completed
\* months: years*12 + months = 12*(refYear - birthYear) + (refMonth -
\* birthMonth) - (1 if refDay < birthDay else 0); birth 2010-06-15 gives
\* {13, 11} at 2024-06-10 and {14, 0} at 2024-06-20.
CompletedMonths(b, r) ==
    12 * (r.y - b.y) + (r.mm - b.mm) - (IF r.dd < b.dd THEN 1 ELSE 0)

C4_CompletedMonths ==
    (Called /\ BothValid /\ IsoLE(birthDate, referenceDate))
        => /\ age.kind = "age"
           /\ age.years * 12 + age.months = CompletedMonths(birthDate, referenceDate)
           /\ (birthDate = IsoDate(2010, 6, 15) /\ referenceDate = IsoDate(2024, 6, 10))
                 => age = AgeResult(13, 11)
           /\ (birthDate = IsoDate(2010, 6, 15) /\ referenceDate = IsoDate(2024, 6, 20))
                 => age = AgeResult(14, 0)

\* the case C4 is about, with the borrow taken
C4_Witness ==
    /\ Called
    /\ birthDate = IsoDate(2010, 6, 15) /\ referenceDate = IsoDate(2024, 6, 10)
    /\ age = AgeResult(13, 11)

\* C5 as stated: with the birth date absent or unparseable, calculateAge
\* returns {0, 0} for every value of the reference date.
C5_AbsentBirthIsZero ==
    (Called /\ ~IsValidInput(birthDate)) => age = AgeResult(0, 0)

\* C5 amended: with the birth date absent or unparseable, calculateAge returns
\* {0, 0} when the reference date is absent, unparseable or not later than the
\* current date.
C5_AbsentBirthIsZeroUpToNow ==
    (/\ Called
     /\ ~IsValidInput(birthDate)
     /\ IsValidInput(referenceDate) => IsoLE(referenceDate, AsIso(calledAt)))
        => age = AgeResult(0, 0)

C5_Witness ==
    /\ Called
    /\ birthDate.kind = "invalid"
    /\ IsValidInput(referenceDate) /\ IsoLT(referenceDate, AsIso(calledAt))
    /\ age = AgeResult(0, 0)

\* C6: calculateAge, formatDateKR and formatAgeKR return a value for every
\* input and never throw; formatDateKR answers an absent or invalid date
\* with the placeholder '--' (and only those).
C6_FailClosed ==
    /\ Called => age.kind = "age"
    /\ shown # Null => shown.kind \in {"text", "localeDate", "ageText"}
    /\ (shown # Null /\ shown.kind # "ageText")
          => (shown = Placeholder <=> ~IsValidInput(referenceDate))

C6_Witness ==
    /\ Called
    /\ birthDate.kind = "invalid" /\ referenceDate.kind = "absent"
    /\ age.kind = "age"
    /\ shown = Placeholder

\* C7 as stated: two calls of calculateAge with the same arguments return the
\* same result, whatever the moments of the calls.
C7_Deterministic ==
    calls >= 2 => age = firstAge

\* C7 amended: two calls of calculateAge with the same two valid date strings
\* return the same result, whatever the moments of the calls.
C7_DeterministicOnValidDates ==
    (calls >= 2 /\ BothValid) => age = firstAge

C7_Witness ==
    /\ calls >= 2 /\ BothValid
    /\ calledAt # firstAt
    /\ age = firstAge /\ age.kind = "age" /\ age.months > 0


(***************************************************************************)
(* GrowthSpec: AnalysisResults rendered on bounded props                   *)
(***************************************************************************)
GrowthInit ==
    /\ heightCm \in Heights
    /\ probability \in ResultProbabilities
    /\ chronologicalAge \in ChronAges
    /\ view = Null
    /\ boneAge = Null
    /\ SessionIdle
    /\ UploadIdle
    /\ GatewayIdle
    /\ AgeIdle

\* the component mounts: useState(chronologicalAge), the memoized values, and
\* the effect that sets boneAge to chronologicalAge
Render ==
    /\ view = Null
    /\ view' = Derived(heightCm, probability, chronologicalAge)
    /\ boneAge' = chronologicalAge
    /\ UNCHANGED <<heightCm, probability, chronologicalAge>>
    /\ UNCHANGED <<sessionVars, uploadVars, gatewayVars, ageVars>>

GrowthNext == Render

GrowthSpec == GrowthInit /\ [][GrowthNext]_vars

Rendered == view # Null

(***************************************************************************)
(* The bone-age selectors of AnalysisResults (BoneAgeSpec): the mounted    *)
(* component with its two <select> handlers and a parent that passes new   *)
(* patient information.                                                     *)
(***************************************************************************)
yearOptions  == 0 .. 20
monthOptions == 0 .. 11

\* the props the selectors are exercised on
SelectorHeights == {0, 150 * HeightDen}
SelectorProbabilities == {0, ProbDen}
SelectorAges == { AgeResult(y, m) : y \in {5, 8}, m \in {0, 7} }

\* the effect never runs: boneAge survives a change of the chronological age
boneAgeEffect_Never(prev, chron, depsChanged) == prev

\* useEffect(() => setBoneAge(chronologicalAge), [chronologicalAge]): the memo
\* yields a new chronologicalAge object when birthDate or examDate changed
boneAgeEffect(prev, chron, depsChanged) ==
    IF depsChanged THEN chron ELSE prev

BoneAgeInit ==
    /\ heightCm \in SelectorHeights
    /\ probability \in SelectorProbabilities
    /\ chronologicalAge \in SelectorAges
    /\ view = Null
    /\ boneAge = Null
    /\ SessionIdle /\ UploadIdle /\ GatewayIdle /\ AgeIdle

\* onChange of the years <select>: setBoneAge(prev => ({...prev, years})),
\* then the re-render with the memoized values
selectBoneAgeYears(years) ==
    /\ Rendered
    /\ boneAge' = [boneAge EXCEPT !.years = years]
    /\ view' = Derived(heightCm, probability, chronologicalAge)
    /\ lastEvent' = Event("selectBoneAgeYears")
    /\ UNCHANGED <<heightCm, probability, chronologicalAge>>
    /\ UNCHANGED <<appState, currentFile, result, analysisError, patientInfo,
                   inflight, issued, liveUrls>>
    /\ UNCHANGED <<uploadVars, gatewayVars, ageVars>>

\* onChange of the months <select>
selectBoneAgeMonths(months) ==
    /\ Rendered
    /\ boneAge' = [boneAge EXCEPT !.months = months]
    /\ view' = Derived(heightCm, probability, chronologicalAge)
    /\ lastEvent' = Event("selectBoneAgeMonths")
    /\ UNCHANGED <<heightCm, probability, chronologicalAge>>
    /\ UNCHANGED <<appState, currentFile, result, analysisError, patientInfo,
                   inflight, issued, liveUrls>>
    /\ UNCHANGED <<uploadVars, gatewayVars, ageVars>>

\* the parent passes another patientInfo: the memoized values are recomputed
\* and, when birthDate or examDate changed, the effect resets boneAge
patientInfoChanged(h, chron, datesChanged) ==
    /\ Rendered
    /\ ~datesChanged => chron = chronologicalAge
    /\ heightCm' = h
    /\ chronologicalAge' = chron
    /\ view' = Derived(h, probability, chron)
    /\ boneAge' = boneAgeEffect(boneAge, chron, datesChanged)
    /\ lastEvent' = Event("patientInfoChanged")
    /\ UNCHANGED probability
    /\ UNCHANGED <<appState, currentFile, result, analysisError, patientInfo,
                   inflight, issued, liveUrls>>
    /\ UNCHANGED <<uploadVars, gatewayVars, ageVars>>

BoneAgeNext ==
    \/ Render
    \/ \E years \in yearOptions : selectBoneAgeYears(years)
    \/ \E months \in monthOptions : selectBoneAgeMonths(months)
    \/ \E h \in SelectorHeights, chron \in SelectorAges, datesChanged \in BOOLEAN :
          patientInfoChanged(h, chron, datesChanged)

BoneAgeSpec == BoneAgeInit /\ [][BoneAgeNext]_vars

(***************************************************************************)
(* Properties of the derived values (checked under GrowthSpec)             *)
(***************************************************************************)

\* C8: the predicted adult height is round(base + 10 + (probability - 0.5) *
\* 12), base being heightCm, or 140 when heightCm is unset: it is the integer
\* n with n - 1/2 <= base + 10 + delta < n + 1/2.
C8_PredictedHeight ==
    Rendered =>
        LET base == IF heightCm = 0 THEN 140 * HeightDen ELSE heightCm
            den  == 2 * ProbDen * HeightDen
            x    == 2 * ProbDen * base + 10 * den + 12 * HeightDen * (2 * probability - ProbDen)
            n    == view.predictedHeight
        IN  /\ (2 * n - 1) * den <= 2 * x
            /\ 2 * x < (2 * n + 1) * den

\* the unset height, at a probability where base + 10 + delta ends in .5
\* and is rounded up
C8_Witness ==
    /\ Rendered
    /\ heightCm = 0
    /\ probability = 5 /\ ProbDen = 8
    /\ view.predictedHeight = 152

\* C9: for a fixed heightCm the predicted adult height is non-decreasing in
\* probability.
C9_MonotoneInProbability ==
    Rendered =>
        \A p \in Probabilities :
            /\ p <= probability => predictedHeight(heightCm, p) <= view.predictedHeight
            /\ p >= probability => predictedHeight(heightCm, p) >= view.predictedHeight

C9_Witness ==
    /\ Rendered
    /\ probability = 0
    /\ predictedHeight(heightCm, ProbDen) > view.predictedHeight

\* C10 as stated: the curve has exactly 8 points, each age is the previous one
\* plus 1, and the first point's height is the patient's height (heightCm),
\* for every height.
C10_CurveShape ==
    Rendered =>
        LET pts == view.graphPoints
        IN  /\ Len(pts) = 8
            /\ \A i \in 1 .. (Len(pts) - 1) : pts[i + 1].age = pts[i].age + 1
            /\ pts[1].height = GraphDen * heightCm

\* C10 amended: 8 points, ages rising by 1, and the first point's height is
\* heightCm, or 140 when heightCm is unset (zero).
C10_CurveShapeWithDefault ==
    Rendered =>
        LET pts == view.graphPoints
        IN  /\ Len(pts) = 8
            /\ \A i \in 1 .. (Len(pts) - 1) : pts[i + 1].age = pts[i].age + 1
            /\ pts[1].height =
                  GraphDen * (IF heightCm = 0 THEN 140 * HeightDen ELSE heightCm)

C10_Witness ==
    /\ Rendered
    /\ heightCm # 0
    /\ chronologicalAge.years > 6
    /\ view.graphPoints[1].height = GraphDen * heightCm
    /\ view.graphPoints[8].height # view.graphPoints[1].height
    /\ view.graphPoints[8].age = chronologicalAge.years + 5

\* C11: osteoAgeScore = round(clamp(45 + probability * 50, 55, 100)) lies in
\* [55, 100] for every probability: it is 55 up to probability 0.2, 100 from
\* 1.1 on, and the rounded 45 + probability * 50 in between (95 at 1).
C11_OsteoAgeScoreInRange ==
    Rendered =>
        LET n == view.osteoAgeScore
            x == 45 * ProbDen + 50 * probability       \* (45 + p * 50) * ProbDen
        IN  /\ 55 <= n /\ n <= 100
            /\ x <= 55 * ProbDen => n = 55
            /\ x >= 100 * ProbDen => n = 100
            /\ (55 * ProbDen < x /\ x < 100 * ProbDen) =>
                   /\ (2 * n - 1) * ProbDen <= 2 * x
                   /\ 2 * x < (2 * n + 1) * ProbDen
            /\ probability = ProbDen => n = 95

\* a probability below 0, where only the floor of 55 keeps the score in range
C11_Witness ==
    /\ Rendered
    /\ probability < 0
    /\ 45 * ProbDen + 50 * probability < 55 * ProbDen
    /\ view.osteoAgeScore = 55

\* heightCm is a value the form's height input accepts (80..220 cm) and
\* probability one the gateway delivers ([0,1])
InFormAndGatewayRange ==
    /\ 80 * HeightDen <= heightCm /\ heightCm <= 220 * HeightDen
    /\ probability \in Probabilities

\* C19 as stated: the predicted range is {min: max(120, predicted - 4), max:
\* predicted + 3} and max - min = 7 for every predicted height that a form
\* height of 80..220 cm and a probability in [0,1] produce.
C19_FixedWidthBand ==
    (Rendered /\ InFormAndGatewayRange) =>
        LET r == view.predictedRange
        IN  /\ r.min = Max(120, view.predictedHeight - 4)
            /\ r.max = view.predictedHeight + 3
            /\ r.max - r.min = 7

\* C19 amended: the range is {max(120, predicted - 4), predicted + 3}; its
\* width is 7 when predicted >= 124, and below that min is the floor 120 and
\* the width is predicted - 117, less than 7 (min exceeds max under 117).
C19_BandWithFloor ==
    (Rendered /\ InFormAndGatewayRange) =>
        LET r == view.predictedRange
            n == view.predictedHeight
        IN  /\ r.max = n + 3
            /\ n >= 124 => (r.min = n - 4 /\ r.max - r.min = 7)
            /\ n < 124 => (r.min = 120 /\ r.max - r.min = n - 117 /\ r.max - r.min < 7)

\* the form's smallest height at probability 0: predicted 84, range 120..87
C19_Witness ==
    /\ Rendered
    /\ InFormAndGatewayRange
    /\ heightCm = 80 * HeightDen
    /\ probability = 0
    /\ view.predictedHeight = 84
    /\ view.predictedRange = [min |-> 120, max |-> 87]

C21_CurveStartAndHeights ==
    Rendered =>
        LET pts  == view.graphPoints
            base == IF heightCm = 0 THEN 140 * HeightDen ELSE heightCm
        IN  /\ pts[1].age = Max(4, chronologicalAge.years - 2)
            /\ \A i \in 0 .. 7 :
                  pts[i + 1].height =
                      7 * base + (view.predictedHeight * HeightDen - base) * i

\* both branches of the max are taken by points of rendered curves: here the
\* floor 4 for a three-year-old, with a curve that is not flat
C21_Witness ==
    /\ Rendered
    /\ chronologicalAge.years = 3
    /\ view.graphPoints[1].age = 4
    /\ heightCm = 0
    /\ view.graphPoints[4].height > view.graphPoints[1].height
    /\ view.graphPoints[8].height = 7 * HeightDen * view.predictedHeight


\* C22: the current marker is the curve point whose age minimises
\* |age - (years + months / 12)|, and of two equally close points the one with
\* the smaller index is kept; consequently, for years >= 6, the marker is the
\* point with age = years when months <= 6 and age = years + 1 when months > 6.
C22_MarkerIsClosestPoint ==
    Rendered =>
        LET pts == view.graphPoints
            d(i) == AgeDistance(pts[i], chronologicalAge)
        IN  /\ \E k \in 1 .. Len(pts) :
                  /\ view.currentPoint = pts[k]
                  /\ \A j \in 1 .. Len(pts) :
                        /\ d(k) <= d(j)
                        /\ d(j) = d(k) => k <= j
            /\ chronologicalAge.years >= 6 =>
                  view.currentPoint.age =
                      IF chronologicalAge.months <= 6
                      THEN chronologicalAge.years
                      ELSE chronologicalAge.years + 1

\* a tie: at 7 years 6 months the points of ages 7 and 8 are equally close and
\* the marker is the earlier one
C22_Witness ==
    /\ Rendered
    /\ chronologicalAge = AgeResult(7, 6)
    /\ view.currentPoint.age = 7
    /\ view.currentPoint = view.graphPoints[3]
    /\ AgeDistance(view.graphPoints[4], chronologicalAge) = 6

\* C23: adjusting the bone age (years or months selector) changes only the
\* local boneAge value: the AnalysisResult, the chronological age, the
\* predicted height and range, the growth curve and the osteoAgeScore (all of
\* the rendered values) are unchanged; and boneAge is set back to the
\* chronological age whenever the chronological age changes.
C23_BoneAgeIsLocal ==
    [][ /\ ( /\ lastEvent' # lastEvent \/ boneAge' # boneAge
             /\ lastEvent'.handler \in {"selectBoneAgeYears", "selectBoneAgeMonths"} )
           => /\ probability' = probability
              /\ heightCm' = heightCm
              /\ chronologicalAge' = chronologicalAge
              /\ view' = view
              /\ <<appState, currentFile, result, analysisError, patientInfo>>' =
                     <<appState, currentFile, result, analysisError, patientInfo>>
        /\ (Rendered /\ chronologicalAge' # chronologicalAge)
           => boneAge' = chronologicalAge' ]_vars

\* the bone age was moved away from the chronological age in both fields
C23_Witness ==
    /\ Rendered
    /\ lastEvent = Event("selectBoneAgeMonths")
    /\ chronologicalAge = AgeResult(8, 7)
    /\ boneAge = AgeResult(10, 3)
    /\ view.graphPoints[1].age = 6

\* C28: for every heightCm in the form's range 80..220 and every probability
\* in [0,1], the predicted range brackets the prediction:
\* predictedRange.min <= predictedHeight <= predictedRange.max.
C28_RangeBracketsPrediction ==
    (Rendered /\ InFormAndGatewayRange) =>
        /\ view.predictedRange.min <= view.predictedHeight
        /\ view.predictedHeight <= view.predictedRange.max

\* the form's smallest height at probability 1: predicted 96, below the
\* range's lower end 120
C28_Witness ==
    /\ Rendered
    /\ heightCm = 80 * HeightDen
    /\ probability = ProbDen
    /\ view.predictedHeight = 96
    /\ view.predictedRange.min = 120
    /\ view.predictedRange.max = 99

\* C29: for every heightCm and every probability in [0,1], the growth curve's
\* heights are non-decreasing from point to point and the last (8th) point's
\* height equals the predicted adult height.
C29_CurveRisesToPrediction ==
    (Rendered /\ probability \in Probabilities) =>
        LET pts == view.graphPoints
        IN  /\ \A i \in 1 .. 7 : pts[i].height <= pts[i + 1].height
            /\ pts[8].height = GraphDen * HeightDen * view.predictedHeight

\* a curve that rises strictly, from an entered height to the prediction
C29_Witness ==
    /\ Rendered
    /\ probability = 0
    /\ heightCm = 142 * HeightDen
    /\ view.predictedHeight = 146
    /\ view.graphPoints[1].height = GraphDen * heightCm
    /\ view.graphPoints[2].height > view.graphPoints[1].height
    /\ view.graphPoints[8].height = GraphDen * HeightDen * 146
====
